---- MODULE Spec2Model ----
(***************************************************************************)
(* State-machine model of the quiz backend (backend/api.py over the tables *)
(* of backend/sqlite_dal.py).                                              *)
(*                                                                         *)
(* Tables are sets of rows (records with an id).  An Optional/nullable     *)
(* value is None (the empty tuple) or Some(v) (a one-element tuple).       *)
(* A score is counted in hundredths (0.8 is 80), a time in whole hours     *)
(* since 1970-01-01T00:00Z.                                                *)
(***************************************************************************)
EXTENDS Integers, Sequences, FiniteSets, TLC

\* ---------------------------------------------------------------- bounds
MaxTopics == 2       \* quiz_topics ids the database hands out
MaxQuestions == 2    \* questions of a generated quiz
MaxResults == 2      \* user_quiz_results rows
MaxAnswers == 3      \* user_question_answers rows
MaxTicks == 1        \* hours the clock advances
StartTime == 4       \* the hour the server starts at (1970-01-01T04:00Z)
MaxAttempts == 3     \* quiz_attempts rows

Workers == {"w1", "w2"}
TempNames == {"tmp1", "tmp2"}

None == <<>>
Some(v) == <<v>>

VARIABLES
    quiz_topics,            \* table quiz_topics (committed rows)
    quiz_questions,         \* table quiz_questions
    user_profiles,          \* table user_profiles
    user_quiz_results,      \* table user_quiz_results
    user_question_answers,  \* table user_question_answers
    quiz_attempts,          \* table quiz_attempts
    engine,                 \* the database the engine is connected to
    tables,                 \* the schema: the columns of every table that exists
    topic_id_seq,           \* last id the database gave a quiz_topics row
    temp_files,             \* the temporary files that exist
    pc,                     \* per worker: the generation handler it is in
    quiz,                   \* per worker: the generated quiz
    quiz_topic,             \* per worker: the flushed, uncommitted topic row
    temp_file_path,         \* per worker: the upload's temporary file
    now,                    \* datetime.utcnow()
    last                    \* the step taken last and its response

genVars == <<topic_id_seq, temp_files, pc, quiz, quiz_topic, temp_file_path>>
userVars == <<user_profiles, user_quiz_results, user_question_answers, quiz_attempts>>
schemaVars == <<engine, tables>>
vars == <<quiz_topics, quiz_questions, userVars, genVars, schemaVars, now, last>>

\* ------------------------------------------------------ generic helpers
Range(s) == {s[i] : i \in DOMAIN s}

SeqsUpTo(S, n) == UNION {[1..k -> S] : k \in 0..n}

\* ------------------------------------------------ generation endpoints
NoQuiz == [topic |-> "", category |-> "", subcategory |-> "", questions |-> <<>>]

NoException == [type |-> "", status_code |-> 0, detail |-> ""]

HTTPException(code, text) ==
    [type |-> "HTTPException", status_code |-> code, detail |-> text]

\* str(e) of the exception a handler catches
ExcStr(e) ==
    IF e.type = "HTTPException"
    THEN (IF e.status_code = 400 THEN "400: " ELSE "") \o e.detail
    ELSE e.detail

InvalidDifficulty ==
    HTTPException(400, "Invalid difficulty level. Choose from: easy, medium, hard")

NotAPdf == HTTPException(400, "Only PDF files are accepted")

ValidDifficulty(difficulty) == difficulty \in {"easy", "medium", "hard"}

\* (mutant) the generic except clause comes first and answers everything
CreateQuizErrorGenericFirst(e) ==
    [status |-> 500, detail |-> "An unexpected error occurred: " \o ExcStr(e)]

\* The response create_quiz's except clauses turn an exception of its try
\* block into.
CreateQuizError(e) ==
    IF e.type = "HTTPError"
    THEN IF e.status_code = 404
         THEN [status |-> 404, detail |-> "Content not found at URL"]
         ELSE [status |-> 500, detail |-> ExcStr(e)]
    ELSE [status |-> 500, detail |-> "An unexpected error occurred: " \o ExcStr(e)]

\* The response create_quiz_from_pdf's single except clause produces.
CreateQuizFromPdfError(e) ==
    [status |-> 500, detail |-> "An unexpected error occurred: " \o ExcStr(e)]

\* str.lower() on the characters file names are built from
Lower(c) ==
    CASE c = "A" -> "a"
      [] c = "P" -> "p"
      [] c = "D" -> "d"
      [] c = "F" -> "f"
      [] OTHER -> c

LowerStr(s) == [i \in DOMAIN s |-> Lower(s[i])]

EndsWith(s, suffix) ==
    /\ Len(s) >= Len(suffix)
    /\ SubSeq(s, Len(s) - Len(suffix) + 1, Len(s)) = suffix

IsPdfFilename(filename) == EndsWith(LowerStr(filename), <<".", "p", "d", "f">>)

\* QuizTopic(topic=..., category=..., subcategory=...) after db.flush()
NewQuizTopic(q, id, t) ==
    [id |-> id, topic |-> q.topic, category |-> q.category,
     subcategory |-> q.subcategory, creation_timestamp |-> t,
     last_attempt_date |-> None]

NoTopic == NewQuizTopic(NoQuiz, 0, 0)

\* the QuizQuestion rows the loop over quiz["questions"] adds, keyed as the
\* database keys them at the commit
NewQuizQuestions(q, topic_id, questions) ==
    {[id |-> Cardinality(questions) + i, question |-> q.questions[i],
      topic_id |-> topic_id] : i \in DOMAIN q.questions}

NoRequest == [difficulty |-> "", filename |-> <<>>]

\* What the world outside the handler did in a step: the exception copying
\* the upload raised, the exception the generator raised or else the quiz it
\* returned, the exception the database raised.
Env(copy, generate, q, db) == [copy |-> copy, generate |-> generate, quiz |-> q, db |-> db]

NoEnv == Env(NoException, NoException, NoQuiz, NoException)

\* the exceptions of a step, as its response record keeps them
Raised(env) == [copy |-> env.copy, generate |-> env.generate, db |-> env.db]

\* the record of a step: the handler, its worker and request, what was raised
\* in it, and the response (status 0: the handler has not returned yet)
Response(op, w, req, env, status, detail, body) ==
    [op |-> op, worker |-> w, req |-> req, raised |-> Raised(env),
     status |-> status, detail |-> detail, body |-> body]

\* The handler of worker w ends with an error response: its session is
\* closed without a commit, so what it added is discarded.
Abort(w, op, req, env, err) ==
    /\ pc' = [pc EXCEPT ![w] = "idle"]
    /\ quiz' = [quiz EXCEPT ![w] = NoQuiz]
    /\ quiz_topic' = [quiz_topic EXCEPT ![w] = NoTopic]
    /\ last' = Response(op, w, req, env, err.status, err.detail, NoQuiz)
    /\ UNCHANGED <<quiz_topics, quiz_questions>>

\* generate_quiz / generate_quiz_from_pdf returned env.quiz: the topic row is
\* added and flushed, which gives it its id
FlushTopic(w, op, req, env) ==
    /\ topic_id_seq < MaxTopics
    /\ topic_id_seq' = topic_id_seq + 1
    /\ pc' = [pc EXCEPT ![w] = op]
    /\ quiz' = [quiz EXCEPT ![w] = env.quiz]
    /\ quiz_topic' = [quiz_topic EXCEPT ![w] = NewQuizTopic(env.quiz, topic_id_seq + 1, now)]
    /\ last' = Response(op, w, req, env, 0, "", NoQuiz)
    /\ UNCHANGED <<quiz_topics, quiz_questions>>

\* (mutant) the question rows take the id the database handed out last
QuestionTopicIdLatest(w) == topic_id_seq

\* the topic_id the question rows of worker w are given
QuestionTopicId(w) == quiz_topic[w].id

\* db.commit() of worker w's session: the topic and its questions; the
\* handler returns the quiz
CommitQuiz(w, op, env) ==
    /\ quiz_topics' = quiz_topics \cup {quiz_topic[w]}
    /\ quiz_questions' = quiz_questions \cup
           NewQuizQuestions(quiz[w], QuestionTopicId(w), quiz_questions)
    /\ pc' = [pc EXCEPT ![w] = "idle"]
    /\ quiz' = [quiz EXCEPT ![w] = NoQuiz]
    /\ quiz_topic' = [quiz_topic EXCEPT ![w] = NoTopic]
    /\ last' = Response(op, w, NoRequest, env, 200, "", quiz[w])

\* POST /generate-quiz up to db.flush(): validation, generation, the topic row
CreateQuizFlush(w, req, env) ==
    /\ pc[w] = "idle"
    /\ UNCHANGED <<temp_files, temp_file_path, userVars, now, schemaVars>>
    /\ IF ~ValidDifficulty(req.difficulty)
       THEN /\ Abort(w, "create_quiz", req, env, CreateQuizError(InvalidDifficulty))
            /\ UNCHANGED topic_id_seq
       ELSE IF env.generate.type # ""
       THEN /\ Abort(w, "create_quiz", req, env, CreateQuizError(env.generate))
            /\ UNCHANGED topic_id_seq
       ELSE IF env.db.type # ""
       THEN /\ Abort(w, "create_quiz", req, env, CreateQuizError(env.db))
            /\ UNCHANGED topic_id_seq
       ELSE FlushTopic(w, "create_quiz", req, env)

\* POST /generate-quiz from the question loop to the response
CreateQuizCommit(w, env) ==
    /\ pc[w] = "create_quiz"
    /\ UNCHANGED <<temp_files, temp_file_path, topic_id_seq, userVars, now, schemaVars>>
    /\ IF env.db.type # ""
       THEN Abort(w, "create_quiz", NoRequest, env, CreateQuizError(env.db))
       ELSE CommitQuiz(w, "create_quiz", env)

\* POST /generate-quiz-from-pdf up to the end of the with block: validation,
\* the temporary file, the copy of the upload into it
CreateQuizFromPdfUpload(w, req, env) ==
    /\ pc[w] = "idle"
    /\ UNCHANGED <<topic_id_seq, userVars, now, schemaVars>>
    /\ IF ~ValidDifficulty(req.difficulty)
       THEN /\ Abort(w, "create_quiz_from_pdf", req, env, CreateQuizFromPdfError(InvalidDifficulty))
            /\ UNCHANGED <<temp_files, temp_file_path>>
       ELSE IF ~IsPdfFilename(req.filename)
       THEN /\ Abort(w, "create_quiz_from_pdf", req, env, CreateQuizFromPdfError(NotAPdf))
            /\ UNCHANGED <<temp_files, temp_file_path>>
       ELSE \E f \in TempNames \ temp_files :
            /\ temp_files' = temp_files \cup {f}
            /\ IF env.copy.type # ""
               THEN \* the with block closes the file (delete=False) and the
                    \* exception leaves the handler before its try/finally
                    /\ Abort(w, "create_quiz_from_pdf", req, env, CreateQuizFromPdfError(env.copy))
                    /\ UNCHANGED temp_file_path
               ELSE /\ temp_file_path' = [temp_file_path EXCEPT ![w] = Some(f)]
                    /\ pc' = [pc EXCEPT ![w] = "pdf_uploaded"]
                                    /\ last' = Response("create_quiz_from_pdf", w, req, env, 0, "", NoQuiz)
                    /\ UNCHANGED <<quiz, quiz_topic, quiz_topics, quiz_questions>>

\* the finally clause: os.unlink(temp_file_path) if the file exists
Cleanup(w) ==
    /\ temp_files' = temp_files \ Range(temp_file_path[w])
    /\ temp_file_path' = [temp_file_path EXCEPT ![w] = None]

\* POST /generate-quiz-from-pdf inside its inner try, up to db.flush()
CreateQuizFromPdfFlush(w, env) ==
    /\ pc[w] = "pdf_uploaded"
    /\ UNCHANGED <<userVars, now, schemaVars>>
    /\ IF env.generate.type # ""
       THEN /\ Abort(w, "create_quiz_from_pdf", NoRequest, env, CreateQuizFromPdfError(env.generate))
            /\ Cleanup(w)
            /\ UNCHANGED topic_id_seq
       ELSE IF env.db.type # ""
       THEN /\ Abort(w, "create_quiz_from_pdf", NoRequest, env, CreateQuizFromPdfError(env.db))
            /\ Cleanup(w)
            /\ UNCHANGED topic_id_seq
       ELSE /\ FlushTopic(w, "create_quiz_from_pdf", NoRequest, env)
            /\ UNCHANGED <<temp_files, temp_file_path>>

\* POST /generate-quiz-from-pdf from the question loop to the response
CreateQuizFromPdfCommit(w, env) ==
    /\ pc[w] = "create_quiz_from_pdf"
    /\ UNCHANGED <<topic_id_seq, userVars, now, schemaVars>>
    /\ Cleanup(w)
    /\ IF env.db.type # ""
       THEN Abort(w, "create_quiz_from_pdf", NoRequest, env, CreateQuizFromPdfError(env.db))
       ELSE CommitQuiz(w, "create_quiz_from_pdf", env)

\* --------------------------------------------------- dates and metrics
\* datetime.hour
Hour(t) == t % 24

DayNames == <<"Monday", "Tuesday", "Wednesday", "Thursday", "Friday", "Saturday", "Sunday">>

\* strftime("%A"); 1970-01-01 was a Thursday
DayOfWeek(t) == DayNames[(((t \div 24) + 3) % 7) + 1]

\* (mutant) the boundaries of the buckets belong to the earlier bucket
TimeOfDayLateBoundaries(hour) ==
    IF 5 < hour /\ hour <= 12 THEN "Morning"
    ELSE IF 12 < hour /\ hour <= 17 THEN "Afternoon"
    ELSE IF 17 < hour /\ hour <= 21 THEN "Evening"
    ELSE "Night"

\* the if/elif chain on current_time.hour
TimeOfDay(hour) ==
    IF 5 <= hour /\ hour < 12 THEN "Morning"
    ELSE IF 12 <= hour /\ hour < 17 THEN "Afternoon"
    ELSE IF 17 <= hour /\ hour < 21 THEN "Evening"
    ELSE "Night"

\* a quotient a / b of two integers, b # 0
Fraction(a, b) == [num |-> a, den |-> b]

\* if x: for an Optional[int] and for an Optional[str]
TruthyInt(x) == x # None /\ x[1] # 0

\* (mutant) if x is not None: the empty string counts
TruthyStrNotNone(x) == x # None

TruthyStr(x) == x # None /\ x[1] # ""

\* (mutant) the guard lets total_questions = 0 through
AverageTimePerQuestionFromZero(time_taken, total_questions) ==
    IF TruthyInt(time_taken) /\ total_questions >= 0
    THEN Some(Fraction(time_taken[1], total_questions))
    ELSE None

\* avg_time_per_question
AverageTimePerQuestion(time_taken, total_questions) ==
    IF TruthyInt(time_taken) /\ total_questions > 0
    THEN Some(Fraction(time_taken[1], total_questions))
    ELSE None

\* scores are counted in hundredths: 0.8 and 0.6
EasyScore == 80
MediumScore == 60

\* (mutant) the thresholds are exclusive
DifficultyLevelExclusive(score) ==
    IF score > EasyScore THEN "Easy"
    ELSE IF score > MediumScore THEN "Medium"
    ELSE "Hard"

\* the if/elif chain on score_percentage
DifficultyLevel(score) ==
    IF score >= EasyScore THEN "Easy"
    ELSE IF score >= MediumScore THEN "Medium"
    ELSE "Hard"

\* sorted(answers, key=lambda x: x.question_id): a stable insertion of each
\* answer behind the answers whose key is not larger
RECURSIVE InsertByQuestionId(_, _)
InsertByQuestionId(sorted, a) ==
    IF sorted = <<>> THEN <<a>>
    ELSE IF sorted[Len(sorted)].question_id <= a.question_id
         THEN Append(sorted, a)
         ELSE Append(InsertByQuestionId(SubSeq(sorted, 1, Len(sorted) - 1), a),
                     sorted[Len(sorted)])

RECURSIVE SortedAnswers(_)
SortedAnswers(answers) ==
    IF answers = <<>> THEN <<>>
    ELSE InsertByQuestionId(SortedAnswers(SubSeq(answers, 1, Len(answers) - 1)),
                            answers[Len(answers)])

\* the loop over reversed(sorted_answers): count until the first wrong answer
RECURSIVE CountFromEnd(_)
CountFromEnd(sorted) ==
    IF sorted = <<>> THEN 0
    ELSE IF sorted[Len(sorted)].is_correct
         THEN 1 + CountFromEnd(SubSeq(sorted, 1, Len(sorted) - 1))
         ELSE 0

\* (mutant) the answers are counted in the order they were submitted
StreakUnsorted(answers) == CountFromEnd(answers)

\* streak
Streak(answers) ==
    IF answers # <<>> THEN CountFromEnd(SortedAnswers(answers)) ELSE 0

\* ------------------------------------------------- users and quiz results
\* db.query(UserProfile).filter(UserProfile.firebase_uid == uid)
UsersWithUid(uid) == {u \in user_profiles : u.firebase_uid = uid}

\* db.query(QuizTopic).filter(QuizTopic.id == topic_id)
TopicsWithId(topic_id) == {t \in quiz_topics : t.id = topic_id}

\* the ids of a table are handed out in sequence
NextId(table) == Cardinality(table) + 1

NewUserProfile(uid, username, email) ==
    [id |-> NextId(user_profiles), firebase_uid |-> uid, username |-> username,
     email |-> email, created_at |-> now]

QuizResponse(op, req, status, detail, body) ==
    [op |-> op, worker |-> "", req |-> req, raised |-> Raised(NoEnv),
     status |-> status, detail |-> detail, body |-> body]

\* POST /user/profile
CreateOrUpdateUserProfile(req) ==
    /\ IF UsersWithUid(req.firebase_uid) = {}
       THEN LET user == NewUserProfile(req.firebase_uid, req.username, req.email)
            IN  /\ user_profiles' = user_profiles \cup {user}
                /\ last' = QuizResponse("create_or_update_user_profile", req, 200, "success",
                                        [user_id |-> user.id])
       ELSE \E user \in UsersWithUid(req.firebase_uid) :
            LET named == IF TruthyStr(req.username)
                         THEN [user EXCEPT !.username = req.username] ELSE user
                updated == IF TruthyStr(req.email)
                           THEN [named EXCEPT !.email = req.email] ELSE named
            IN  /\ user_profiles' = (user_profiles \ {user}) \cup {updated}
                /\ last' = QuizResponse("create_or_update_user_profile", req, 200, "success",
                                        [user_id |-> user.id])
    /\ UNCHANGED <<quiz_topics, quiz_questions, user_quiz_results, user_question_answers,
                   quiz_attempts, genVars, now, schemaVars>>

\* (mutant) the questions of every topic are counted
NumQuestionsAll(topic) == Cardinality(quiz_questions)

\* len(topic.questions)
NumQuestions(topic) == Cardinality({q \in quiz_questions : q.topic_id = topic.id})

\* the in-progress UserQuizResult start_quiz adds
NewQuizResult(user, topic) ==
    [id |-> NextId(user_quiz_results), user_id |-> user.id, topic_id |-> topic.id,
     score |-> 0, total_questions |-> NumQuestions(topic), correct_answers |-> 0,
     time_taken |-> None, completed |-> FALSE, started_at |-> Some(now),
     completed_at |-> None, day_of_week |-> None, time_of_day |-> None,
     average_time_per_question |-> None, difficulty_level |-> None, streak |-> 0,
     quiz_context |-> None]

\* POST /quiz/start
StartQuiz(req) ==
    LET created == UsersWithUid(req.firebase_uid) = {}
        users == IF created THEN {NewUserProfile(req.firebase_uid, None, None)}
                 ELSE UsersWithUid(req.firebase_uid)
    IN  \E user \in users :
        /\ user_profiles' = user_profiles \cup {user}
        /\ IF TopicsWithId(req.topic_id) = {}
           THEN /\ last' = QuizResponse("start_quiz", req, 404, "Quiz topic not found", None)
                /\ UNCHANGED user_quiz_results
           ELSE \E topic \in TopicsWithId(req.topic_id) :
                LET quiz_result == NewQuizResult(user, topic)
                IN  /\ user_quiz_results' = user_quiz_results \cup {quiz_result}
                    /\ last' = QuizResponse("start_quiz", req, 200, "success",
                           [quiz_result_id |-> quiz_result.id, topic |-> topic.topic,
                            total_questions |-> NumQuestions(topic)])
        /\ UNCHANGED <<quiz_topics, quiz_questions, user_question_answers, quiz_attempts,
                       genVars, now, schemaVars>>

\* (mutant) the column is not declared unique
ViolatesNothing(user) == FALSE

\* firebase_uid = Column(String, nullable=False, unique=True): the INSERT of
\* the row raises IntegrityError
ViolatesUnique(user) == \E u \in user_profiles : u.firebase_uid = user.firebase_uid

\* db.add(user); db.commit() of a handler whose query found no user before
\* another worker process committed a profile of the same firebase_uid; the
\* IntegrityError is not caught and the server answers 500
InsertUserProfileLate(op, req, user) ==
    /\ UsersWithUid(req.firebase_uid) # {}
    /\ IF ViolatesUnique(user)
       THEN /\ UNCHANGED user_profiles
            /\ last' = QuizResponse(op, req, 500, "Internal Server Error", None)
       ELSE /\ user_profiles' = user_profiles \cup {user}
            /\ last' = QuizResponse(op, req, 200, "success", [user_id |-> user.id])
    /\ UNCHANGED <<quiz_topics, quiz_questions, user_quiz_results, user_question_answers,
                   quiz_attempts, genVars, now, schemaVars>>

\* POST /user/profile racing with another worker's commit
CreateOrUpdateUserProfileLate(req) ==
    InsertUserProfileLate("create_or_update_user_profile", req,
                          NewUserProfile(req.firebase_uid, req.username, req.email))

\* POST /quiz/start racing with another worker's commit
StartQuizLate(req) ==
    InsertUserProfileLate("start_quiz", req, NewUserProfile(req.firebase_uid, None, None))

\* (mutant) the query does not filter on the topic
InProgressAnyTopic(results, user_id, topic_id) ==
    {r \in results : r.user_id = user_id /\ ~r.completed}

\* the results the query of submit_quiz_result matches
InProgress(results, user_id, topic_id) ==
    {r \in results : r.user_id = user_id /\ r.topic_id = topic_id /\ ~r.completed}

\* the fields submit_quiz_result writes both to a new and to an existing row
Submitted(row, req) ==
    [row EXCEPT
        !.score = req.score,
        !.total_questions = req.total_questions,
        !.correct_answers = req.correct_answers,
        !.time_taken = req.time_taken,
        !.completed = req.completed,
        !.completed_at = Some(now),
        !.day_of_week = Some(DayOfWeek(now)),
        !.time_of_day = Some(TimeOfDay(Hour(now))),
        !.average_time_per_question =
            AverageTimePerQuestion(req.time_taken, req.total_questions),
        !.difficulty_level = Some(DifficultyLevel(req.score)),
        !.streak = Streak(req.answers),
        !.quiz_context = req.quiz_context]

\* the UserQuizResult submit_quiz_result adds when no result is in progress
SubmittedNew(user, req) ==
    Submitted([id |-> NextId(user_quiz_results), user_id |-> user.id,
               topic_id |-> req.topic_id, score |-> 0, total_questions |-> 0,
               correct_answers |-> 0, time_taken |-> None, completed |-> FALSE,
               started_at |-> IF req.started_at # None THEN req.started_at ELSE Some(now),
               completed_at |-> None, day_of_week |-> None, time_of_day |-> None,
               average_time_per_question |-> None, difficulty_level |-> None,
               streak |-> 0, quiz_context |-> None], req)

\* the UserQuestionAnswer rows of a submission
NewQuestionAnswers(quiz_result_id, answers) ==
    {[id |-> Cardinality(user_question_answers) + i, quiz_result_id |-> quiz_result_id,
      question_id |-> answers[i].question_id, is_correct |-> answers[i].is_correct]
        : i \in DOMAIN answers}

SubmitResponseBody(quiz_result) ==
    [quiz_result_id |-> quiz_result.id, score |-> quiz_result.score,
     correct_answers |-> quiz_result.correct_answers,
     total_questions |-> quiz_result.total_questions,
     difficulty_level |-> quiz_result.difficulty_level,
     completed_at |-> quiz_result.completed_at,
     day_of_week |-> quiz_result.day_of_week,
     time_of_day |-> quiz_result.time_of_day]

\* POST /quiz/submit
SubmitQuizResult(req) ==
    /\ UNCHANGED <<user_profiles, quiz_questions, quiz_attempts, genVars, now, schemaVars>>
    /\ IF UsersWithUid(req.firebase_uid) = {}
       THEN /\ last' = QuizResponse("submit_quiz_result", req, 404, "User not found", None)
            /\ UNCHANGED <<quiz_topics, user_quiz_results, user_question_answers>>
       ELSE IF TopicsWithId(req.topic_id) = {}
       THEN /\ last' = QuizResponse("submit_quiz_result", req, 404, "Quiz topic not found", None)
            /\ UNCHANGED <<quiz_topics, user_quiz_results, user_question_answers>>
       ELSE \E user \in UsersWithUid(req.firebase_uid), topic \in TopicsWithId(req.topic_id) :
            LET found == InProgress(user_quiz_results, user.id, req.topic_id)
            IN  /\ quiz_topics' = (quiz_topics \ {topic})
                       \cup {[topic EXCEPT !.last_attempt_date = Some(now)]}
                /\ \E quiz_result \in
                       IF found = {} THEN {SubmittedNew(user, req)}
                       ELSE {Submitted(r, req) : r \in found} :
                       /\ user_quiz_results' =
                              {r \in user_quiz_results : r.id # quiz_result.id}
                                  \cup {quiz_result}
                       /\ user_question_answers' = user_question_answers
                              \cup NewQuestionAnswers(quiz_result.id, req.answers)
                       /\ last' = QuizResponse("submit_quiz_result", req, 200, "success",
                                               SubmitResponseBody(quiz_result))

\* ------------------------------------------------------------ history
\* rows lists every row of the set once, by completed_at descending
OrderedByCompletedAtDesc(rows, set) ==
    /\ Len(rows) = Cardinality(set)
    /\ Range(rows) = set
    /\ \A i, j \in DOMAIN rows :
           (i < j /\ rows[i].completed_at # None /\ rows[j].completed_at # None)
               => rows[i].completed_at[1] >= rows[j].completed_at[1]

\* (mutant) the query does not filter on completed
HistoryRowsAll(user) == {r \in user_quiz_results : r.user_id = user.id}

\* the rows the query of get_user_quiz_history selects
HistoryRows(user) == {r \in user_quiz_results : r.user_id = user.id /\ r.completed}

\* one entry of results
HistoryEntry(result) ==
    LET topics == TopicsWithId(result.topic_id)
        known == topics # {}
        topic == IF known THEN CHOOSE t \in topics : TRUE ELSE NoTopic
    IN  [quiz_result_id |-> result.id,
         topic_id |-> result.topic_id,
         topic_name |-> IF known THEN topic.topic ELSE "Unknown",
         category |-> IF known THEN topic.category ELSE "Unknown",
         subcategory |-> IF known THEN topic.subcategory ELSE "Unknown",
         score |-> result.score,
         correct_answers |-> result.correct_answers,
         total_questions |-> result.total_questions,
         time_taken |-> result.time_taken,
         completed_at |-> result.completed_at,
         day_of_week |-> result.day_of_week,
         time_of_day |-> result.time_of_day,
         difficulty_level |-> result.difficulty_level,
         average_time_per_question |-> result.average_time_per_question]

\* sum(result["score"] for result in results)
RECURSIVE SumScores(_)
SumScores(results) ==
    IF results = <<>> THEN 0
    ELSE SumScores(SubSeq(results, 1, Len(results) - 1)) + results[Len(results)].score

\* (mutant) the mean is taken over one entry more than there are
AverageScoreOffByOne(results) ==
    Fraction(SumScores(results), Len(results) + 1)

\* "average_score"
AverageScore(results) ==
    IF results # <<>> THEN Fraction(SumScores(results), Len(results)) ELSE Fraction(0, 1)

\* the counting loop: counts[key] = counts.get(key, 0) + 1 for each key that
\* is set
RECURSIVE CountKeys(_)
CountKeys(keys) ==
    IF keys = <<>> THEN <<>>
    ELSE LET counts == CountKeys(SubSeq(keys, 1, Len(keys) - 1))
             key == keys[Len(keys)]
         IN  IF TruthyStr(key)
             THEN [k \in DOMAIN counts \cup {key[1]} |->
                      (IF k \in DOMAIN counts THEN counts[k] ELSE 0)
                          + (IF k = key[1] THEN 1 ELSE 0)]
             ELSE counts

\* stats
Statistics(results) ==
    [total_quizzes |-> Len(results),
     average_score |-> AverageScore(results),
     quizzes_by_day |-> CountKeys([i \in DOMAIN results |-> results[i].day_of_week]),
     quizzes_by_time |-> CountKeys([i \in DOMAIN results |-> results[i].time_of_day]),
     quizzes_by_difficulty |->
         CountKeys([i \in DOMAIN results |-> results[i].difficulty_level])]

\* GET /user/{firebase_uid}/quiz-history
GetUserQuizHistory(firebase_uid) ==
    /\ UNCHANGED <<quiz_topics, quiz_questions, userVars, genVars, now, schemaVars>>
    /\ IF UsersWithUid(firebase_uid) = {}
       THEN last' = QuizResponse("get_user_quiz_history", firebase_uid, 404, "User not found", None)
       ELSE \E user \in UsersWithUid(firebase_uid) :
            \E quiz_results \in [1..Cardinality(HistoryRows(user)) -> HistoryRows(user)] :
                /\ OrderedByCompletedAtDesc(quiz_results, HistoryRows(user))
                /\ LET results == [i \in DOMAIN quiz_results |-> HistoryEntry(quiz_results[i])]
                   IN  last' = QuizResponse("get_user_quiz_history", firebase_uid, 200, "success",
                                   [quiz_history |-> results, statistics |-> Statistics(results)])

\* time passes
Tick ==
    /\ now' = now + 1
    /\ last' = QuizResponse("", None, 0, "", None)
    /\ UNCHANGED <<quiz_topics, quiz_questions, userVars, genVars, schemaVars>>

\* ------------------------------------------------------------ attempts
\* the QuizAttempt record_quiz_attempt adds; timestamp defaults to utcnow
NewQuizAttempt(topic_id) ==
    [id |-> NextId(quiz_attempts), topic_id |-> topic_id, timestamp |-> now]

\* POST /record-quiz-attempt
RecordQuizAttempt(req) ==
    /\ IF TopicsWithId(req.topic_id) = {}
       THEN /\ last' = QuizResponse("record_quiz_attempt", req, 404, "Quiz topic not found", None)
            /\ UNCHANGED quiz_attempts
       ELSE LET quiz_attempt == NewQuizAttempt(req.topic_id)
            IN  /\ quiz_attempts' = quiz_attempts \cup {quiz_attempt}
                /\ last' = QuizResponse("record_quiz_attempt", req, 201,
                                        "Quiz attempt recorded successfully",
                                        [timestamp |-> quiz_attempt.timestamp])
    /\ UNCHANGED <<quiz_topics, quiz_questions, user_profiles, user_quiz_results,
                   user_question_answers, genVars, now, schemaVars>>

\* (mutant) the query does not filter on the topic
AttemptsOfAnyTopic(topic_id) == quiz_attempts

\* db.query(QuizAttempt).filter(QuizAttempt.topic_id == topic_id)
AttemptsOf(topic_id) == {a \in quiz_attempts : a.topic_id = topic_id}

\* .all() of a query without ORDER BY: the rows, each once, in any order
All(rows) == {s \in [1..Cardinality(rows) -> rows] : Range(s) = rows}

\* GET /quiz-attempts/{topic_id}
GetQuizAttempts(topic_id) ==
    /\ IF TopicsWithId(topic_id) = {}
       THEN last' = QuizResponse("get_quiz_attempts", topic_id, 404, "Quiz topic not found", None)
       ELSE \E topic \in TopicsWithId(topic_id), attempts \in All(AttemptsOf(topic_id)) :
            last' = QuizResponse("get_quiz_attempts", topic_id, 200, "",
                        [topic |-> topic.topic,
                         attempts |-> [i \in DOMAIN attempts |-> attempts[i].timestamp]])
    /\ UNCHANGED <<quiz_topics, quiz_questions, userVars, genVars, now, schemaVars>>

\* ---------------------------------------------------------- categories
\* (mutant) the subcategory is appended without the membership test
AddTopicAlways(categories, topic) ==
    LET listed == IF topic.category \in DOMAIN categories
                  THEN categories[topic.category] ELSE <<>>
    IN  [c \in DOMAIN categories \cup {topic.category} |->
            IF c = topic.category THEN Append(listed, topic.subcategory) ELSE categories[c]]

\* the body of the loop over the topics
AddTopic(categories, topic) ==
    LET listed == IF topic.category \in DOMAIN categories
                  THEN categories[topic.category] ELSE <<>>
    IN  [c \in DOMAIN categories \cup {topic.category} |->
            IF c # topic.category THEN categories[c]
            ELSE IF topic.subcategory \in Range(listed) THEN listed
            ELSE Append(listed, topic.subcategory)]

\* categories after the loop has seen the first n of the topics
RECURSIVE Categories(_, _)
Categories(topics, n) ==
    IF n = 0 THEN <<>> ELSE AddTopic(Categories(topics, n - 1), topics[n])

\* GET /categories
GetCategories ==
    /\ \E topics \in All(quiz_topics) :
           last' = QuizResponse("get_categories", None, 200, "", Categories(topics, Len(topics)))
    /\ UNCHANGED <<quiz_topics, quiz_questions, userVars, genVars, now, schemaVars>>

\* ---------------------------------------------------- schema migrations
\* the columns the models of heroku_db_update.py declare (the same as those
\* of backend/sqlite_dal.py)
QuizTopicColumns ==
    {"id", "topic", "category", "subcategory", "creation_timestamp", "last_attempt_date"}
QuizQuestionColumns == {"id", "question", "options", "right_option", "topic_id"}
QuizAttemptColumns == {"id", "topic_id", "timestamp"}
UserProfileColumns == {"id", "firebase_uid", "username", "email", "created_at"}
UserQuizResultColumns ==
    {"id", "user_id", "topic_id", "score", "total_questions", "correct_answers",
     "time_taken", "completed", "started_at", "completed_at", "day_of_week",
     "time_of_day", "average_time_per_question", "difficulty_level", "streak",
     "quiz_context"}
UserQuestionAnswerColumns ==
    {"id", "quiz_result_id", "question_id", "user_answer", "is_correct", "time_taken",
     "confidence_level"}

\* Base.metadata: table name -> declared columns
Metadata ==
    [quiz_topics |-> QuizTopicColumns,
     quiz_questions |-> QuizQuestionColumns,
     quiz_attempts |-> QuizAttemptColumns,
     user_profiles |-> UserProfileColumns,
     user_quiz_results |-> UserQuizResultColumns,
     user_question_answers |-> UserQuestionAnswerColumns]

\* the engine of DATABASE_URL (PostgreSQL) or the local SQLite fallback;
\* rowcount tells whether the driver's cursor.rowcount counts the rows of a
\* SELECT ("rows") or is -1 for it ("unknown")
Engine(dialect, rowcount) == [dialect |-> dialect, rowcount |-> rowcount]

\* whether this run of the script follows a run of the same script: 2 if so,
\* 1 otherwise
RunNumber(op) == IF last.op = op THEN 2 ELSE 1

\* the outcome of a script: which run it was, the process exit code, the
\* uncaught exception, and the columns it has issued ALTER TABLE ... ADD
\* COLUMN for
ScriptResult(op, status, detail, added) ==
    QuizResponse(op, RunNumber(op), status, detail, added)

\* Base.metadata.create_all(engine), checkfirst=True: CREATE TABLE for the
\* tables that do not exist, nothing for those that do
CreateAll(schema) ==
    [t \in DOMAIN schema \cup DOMAIN Metadata |->
        IF t \in DOMAIN schema THEN schema[t] ELSE Metadata[t]]

\* heroku_db_update.main()
HerokuDbUpdateMain ==
    /\ tables' = CreateAll(tables)
    /\ last' = ScriptResult("heroku_db_update", 0, "", <<>>)
    /\ UNCHANGED <<quiz_topics, quiz_questions, userVars, genVars, engine, now>>

\* the rows of SELECT column_name FROM information_schema.columns WHERE
\* table_name = ... AND column_name = ...
ColumnRows(schema, table, column) ==
    IF table \in DOMAIN schema /\ column \in schema[table] THEN 1 ELSE 0

\* result.rowcount of that SELECT
Rowcount(schema, table, column) ==
    IF engine.rowcount = "rows" THEN ColumnRows(schema, table, column) ELSE -1

\* the state of a script run: the schema, the columns ALTER TABLE was issued
\* for, and the exception that ended the run ("" for none)
Run(schema, added, error) == [schema |-> schema, added |-> added, error |-> error]

\* check_sql and, when result.rowcount == 0, alter_sql and commit, for one
\* column; SQLite has no information_schema, and ALTER TABLE fails for a
\* table that does not exist and for a column that does
AddColumnIfAbsent(run, table, column) ==
    IF run.error # "" THEN run
    ELSE IF engine.dialect = "sqlite" THEN Run(run.schema, run.added, "OperationalError")
    ELSE IF Rowcount(run.schema, table, column) # 0 THEN run
    ELSE IF table \notin DOMAIN run.schema \/ column \in run.schema[table]
    THEN Run(run.schema, Append(run.added, column), "ProgrammingError")
    ELSE Run([run.schema EXCEPT ![table] = @ \cup {column}],
             Append(run.added, column), "")

\* the columns_to_add loop over the first n columns
RECURSIVE AddColumns(_, _, _, _)
AddColumns(schema, table, columns, n) ==
    IF n = 0 THEN Run(schema, <<>>, "")
    ELSE AddColumnIfAbsent(AddColumns(schema, table, columns, n - 1), table, columns[n])

\* a script that runs the loop over the columns of the table
AlterScript(op, table, columns) ==
    LET run == AddColumns(tables, table, columns, Len(columns))
    IN  /\ tables' = run.schema
        /\ last' = ScriptResult(op, IF run.error = "" THEN 0 ELSE 1, run.error, run.added)
        /\ UNCHANGED <<quiz_topics, quiz_questions, userVars, genVars, engine, now>>

\* alter_table.main()
AlterTableMain == AlterScript("alter_table", "quiz_topics", <<"last_attempt_date">>)

ColumnsToAdd ==
    <<"day_of_week", "time_of_day", "average_time_per_question", "difficulty_level",
      "streak", "quiz_context">>

\* alter_user_quiz_results.main(); its diagnostics change nothing and catch
\* their own exceptions
AlterUserQuizResultsMain ==
    AlterScript("alter_user_quiz_results", "user_quiz_results", ColumnsToAdd)

\* ------------------------------------------------------- environments
HTTPError(code) == [type |-> "HTTPError", status_code |-> code, detail |-> "HTTPError"]
Exception == [type |-> "Exception", status_code |-> 0, detail |-> "Exception"]

Difficulties == {"hard", "extreme"}

Filenames == {<<"a", ".", "p", "d", "f">>, <<"A", ".", "P", "D", "F">>,
              <<"a", ".", "t", "x", "t">>}

Quizzes(topics, categories, subcategories, texts) ==
    [topic : topics, category : categories, subcategory : subcategories,
     questions : SeqsUpTo(texts, MaxQuestions)]

GenerateErrors == {HTTPError(404), HTTPError(503), Exception}

\* what can happen to a handler that has validated its request: the copy of
\* the upload fails, the generator raises, or it returns a quiz and the
\* database raises (whatever the quiz) or not
Envs(quizzes) ==
    {Env(Exception, NoException, NoQuiz, NoException)}
    \cup {Env(NoException, g, NoQuiz, NoException) : g \in GenerateErrors}
    \cup {Env(NoException, NoException, q, NoException) : q \in quizzes}
    \cup {Env(NoException, NoException, NoQuiz, Exception)}

CreateQuizFlushEnvs(quizzes) == {e \in Envs(quizzes) : e.copy.type = ""}
UploadEnvs == {Env(c, NoException, NoQuiz, NoException) : c \in {NoException, Exception}}
CommitEnvs == {Env(NoException, NoException, NoQuiz, d) : d \in {NoException, Exception}}

\* the request and the environment of a handler's first step; what follows a
\* failed validation is not looked at
UrlRequest(d) == [difficulty |-> d, filename |-> <<>>]
PdfRequest(d, f) == [difficulty |-> d, filename |-> f]

\* ------------------------------------------------------ specifications
\* the empty database of a server started at one of the times
InitAt(times) ==
    /\ quiz_topics = {}
    /\ quiz_questions = {}
    /\ user_profiles = {}
    /\ user_quiz_results = {}
    /\ user_question_answers = {}
    /\ quiz_attempts = {}
    /\ topic_id_seq = 0
    /\ temp_files = {}
    /\ pc = [w \in Workers |-> "idle"]
    /\ quiz = [w \in Workers |-> NoQuiz]
    /\ quiz_topic = [w \in Workers |-> NoTopic]
    /\ temp_file_path = [w \in Workers |-> None]
    /\ now \in times
    /\ last = Response("", "", NoRequest, NoEnv, 0, "", NoQuiz)
    /\ engine = Engine("postgresql", "rows")
    /\ tables = Metadata

Init == InitAt({StartTime})

GenQuizzes == Quizzes({"t"}, {"c1"}, {"s1"}, {"q1"})

\* The generation endpoints, served by several workers at once.
NextGen ==
    \/ \E w \in Workers, d \in Difficulties, env \in CreateQuizFlushEnvs(GenQuizzes) :
           CreateQuizFlush(w, UrlRequest(d), IF ValidDifficulty(d) THEN env ELSE NoEnv)
    \/ \E w \in Workers, env \in CommitEnvs : CreateQuizCommit(w, env)
    \/ \E w \in Workers, d \in Difficulties, f \in Filenames, env \in UploadEnvs :
           CreateQuizFromPdfUpload(w, PdfRequest(d, f),
               IF ValidDifficulty(d) /\ IsPdfFilename(f) THEN env ELSE NoEnv)
    \/ \E w \in Workers, env \in CreateQuizFlushEnvs(GenQuizzes) :
           CreateQuizFromPdfFlush(w, env)
    \/ \E w \in Workers, env \in CommitEnvs : CreateQuizFromPdfCommit(w, env)

SpecGen == Init /\ [][NextGen]_vars

Uids == {"u1", "u2"}
TopicIds == 1..MaxTopics

\* the generator returns the quiz
Generated(q) == Env(NoException, NoException, q, NoException)

OneQuestionQuiz ==
    [topic |-> "t", category |-> "c1", subcategory |-> "s1", questions |-> <<"q1">>]

ProfileRequest(uid) == [firebase_uid |-> uid, username |-> None, email |-> None]
StartRequest(uid, topic_id) == [firebase_uid |-> uid, topic_id |-> topic_id]

Answer(question_id, is_correct) == [question_id |-> question_id, is_correct |-> is_correct]

SubmitRequests(uids, topic_ids, scores, completions, answer_lists) ==
    [firebase_uid : uids, topic_id : topic_ids, score : scores, total_questions : {2},
     correct_answers : {1}, time_taken : {Some(30)}, completed : completions,
     started_at : {None}, answers : answer_lists, quiz_context : {Some("note")}]

\* a submission adds a result row unless one is in progress for the pair
AddsResult(req) ==
    \A user \in UsersWithUid(req.firebase_uid) :
        InProgress(user_quiz_results, user.id, req.topic_id) = {}

\* the submission keeps the tables within the bounds
WithinBounds(req) ==
    /\ AddsResult(req) => Cardinality(user_quiz_results) < MaxResults
    /\ Cardinality(user_question_answers) + Len(req.answers) <= MaxAnswers

\* Users start and submit quizzes generated from URLs by one worker.
Next ==
    \/ CreateQuizFlush("w1", UrlRequest("medium"), Generated(OneQuestionQuiz))
    \/ CreateQuizCommit("w1", NoEnv)
    \/ \E uid \in Uids : CreateOrUpdateUserProfile(ProfileRequest(uid))
    \/ \E uid \in Uids, topic_id \in TopicIds :
           /\ Cardinality(user_quiz_results) < MaxResults
           /\ StartQuiz(StartRequest(uid, topic_id))
    \/ \E req \in SubmitRequests(Uids, TopicIds, {90}, BOOLEAN, {<<>>}) :
           /\ WithinBounds(req)
           /\ SubmitQuizResult(req)

Spec == Init /\ [][Next]_vars

\* Users start and submit the one quiz while time passes, and read their
\* histories.
NextHistory ==
    \/ /\ topic_id_seq = 0
       /\ CreateQuizFlush("w1", UrlRequest("medium"), Generated(OneQuestionQuiz))
    \/ CreateQuizCommit("w1", NoEnv)
    \/ \E uid \in Uids : CreateOrUpdateUserProfile(ProfileRequest(uid))
    \/ /\ Cardinality(user_quiz_results) < MaxResults
       /\ StartQuiz(StartRequest("u1", 1))
    \/ \E req \in SubmitRequests({"u1"}, {1}, {50, 90}, {TRUE}, {<<>>})
                  \cup SubmitRequests({"u2"}, {1}, {90}, {TRUE}, {<<>>}) :
           /\ WithinBounds(req)
           /\ SubmitQuizResult(req)
    \/ \E uid \in Uids : GetUserQuizHistory(uid)
    \/ now < StartTime + MaxTicks /\ Tick

SpecHistory == Init /\ [][NextHistory]_vars

\* One user submits the one quiz; the server may have started at any hour of
\* a week.
NextTimeOfDay ==
    \/ /\ topic_id_seq = 0
       /\ CreateQuizFlush("w1", UrlRequest("medium"), Generated(OneQuestionQuiz))
    \/ CreateQuizCommit("w1", NoEnv)
    \/ CreateOrUpdateUserProfile(ProfileRequest("u1"))
    \/ \E req \in SubmitRequests({"u1"}, {1}, {90}, BOOLEAN, {<<>>}) :
           /\ WithinBounds(req)
           /\ SubmitQuizResult(req)

SpecTimeOfDay == InitAt(0..167) /\ [][NextTimeOfDay]_vars

Scores == {-1, 0, 59, 60, 61, 79, 80, 81, 100, 8500}

\* One user submits the one quiz with any of the scores.
NextMetrics ==
    \/ /\ topic_id_seq = 0
       /\ CreateQuizFlush("w1", UrlRequest("medium"), Generated(OneQuestionQuiz))
    \/ CreateQuizCommit("w1", NoEnv)
    \/ CreateOrUpdateUserProfile(ProfileRequest("u1"))
    \/ \E req \in SubmitRequests({"u1"}, {1}, Scores, {TRUE}, {<<>>}) :
           /\ WithinBounds(req)
           /\ SubmitQuizResult(req)

SpecMetrics == Init /\ [][NextMetrics]_vars

AnswerLists == SeqsUpTo({Answer(q, c) : q \in 1..2, c \in BOOLEAN}, MaxAnswers)

\* One user submits the one quiz with any of the answer lists.
NextStreak ==
    \/ /\ topic_id_seq = 0
       /\ CreateQuizFlush("w1", UrlRequest("medium"), Generated(OneQuestionQuiz))
    \/ CreateQuizCommit("w1", NoEnv)
    \/ CreateOrUpdateUserProfile(ProfileRequest("u1"))
    \/ \E req \in SubmitRequests({"u1"}, {1}, {90}, {TRUE}, AnswerLists) :
           /\ WithinBounds(req)
           /\ SubmitQuizResult(req)

SpecStreak == Init /\ [][NextStreak]_vars

Usernames == {None, Some(""), Some("ann"), Some("bob")}
Emails == {None, Some(""), Some("a@x")}

ProfileRequests(uids, usernames, emails) ==
    [firebase_uid : uids, username : usernames, email : emails]

\* One user is created and renamed by POST /user/profile, the other created
\* by either endpoint; several worker processes serve the requests, and time
\* passes.
NextUsers ==
    \/ /\ topic_id_seq = 0
       /\ CreateQuizFlush("w1", UrlRequest("medium"), Generated(OneQuestionQuiz))
    \/ CreateQuizCommit("w1", NoEnv)
    \/ \E req \in ProfileRequests({"u1"}, Usernames, Emails)
                  \cup ProfileRequests({"u2"}, {None}, {None}) :
           CreateOrUpdateUserProfile(req)
    \/ \E req \in ProfileRequests(Uids, {Some("ann")}, {None}) :
           CreateOrUpdateUserProfileLate(req)
    \/ \E topic_id \in 1..2 :
           /\ Cardinality(user_quiz_results) < MaxResults
           /\ StartQuiz(StartRequest("u2", topic_id))
    \/ StartQuizLate(StartRequest("u2", 1))
    \/ now < StartTime + MaxTicks /\ Tick

SpecUsers == Init /\ [][NextUsers]_vars

\* Quizzes of any number of questions are generated; one user has a named
\* profile, and both users start quizzes, on topics that exist and on topics
\* that do not.
NextStart ==
    \/ \E q \in GenQuizzes : CreateQuizFlush("w1", UrlRequest("medium"), Generated(q))
    \/ CreateQuizCommit("w1", NoEnv)
    \/ \E req \in ProfileRequests({"u1"}, {Some("ann")}, {None}) :
           CreateOrUpdateUserProfile(req)
    \/ \E uid \in Uids, topic_id \in TopicIds :
           /\ Cardinality(user_quiz_results) < MaxResults
           /\ StartQuiz(StartRequest(uid, topic_id))

SpecStart == Init /\ [][NextStart]_vars

AttemptRequest(topic_id) == [topic_id |-> topic_id]

\* Attempts are recorded and listed for topics that exist and for topics that
\* do not, while quizzes are generated and time passes.
NextAttempts ==
    \/ CreateQuizFlush("w1", UrlRequest("medium"), Generated(OneQuestionQuiz))
    \/ CreateQuizCommit("w1", NoEnv)
    \/ \E topic_id \in TopicIds :
           /\ Cardinality(quiz_attempts) < MaxAttempts
           /\ RecordQuizAttempt(AttemptRequest(topic_id))
    \/ \E topic_id \in TopicIds : GetQuizAttempts(topic_id)
    \/ now < StartTime + MaxTicks /\ Tick

SpecAttempts == Init /\ [][NextAttempts]_vars

CategoryQuizzes ==
    {[OneQuestionQuiz EXCEPT !.category = c, !.subcategory = sc] :
        c \in {"c1", "c2"}, sc \in {"s1", "s2"}}

\* Quizzes of two categories and two subcategories are generated by two
\* workers and the categories are read.
NextCategories ==
    \/ \E w \in Workers, q \in CategoryQuizzes :
           CreateQuizFlush(w, UrlRequest("medium"), Generated(q))
    \/ \E w \in Workers : CreateQuizCommit(w, NoEnv)
    \/ GetCategories

SpecCategories == Init /\ [][NextCategories]_vars

\* a table of the schema with some of the columns, or no table ({})
Older(columns, added) == {{}} \cup {columns \ missing : missing \in SUBSET added}

\* the schemas of databases created by earlier versions of the models
Schemas ==
    LET choices ==
            [quiz_topics : Older(QuizTopicColumns, {"last_attempt_date"}),
             quiz_questions : {QuizQuestionColumns},
             quiz_attempts : Older(QuizAttemptColumns, {}),
             user_profiles : {UserProfileColumns},
             user_quiz_results : Older(UserQuizResultColumns, Range(ColumnsToAdd)),
             user_question_answers : Older(UserQuestionAnswerColumns, {"confidence_level"})]
    IN  {[t \in {x \in DOMAIN c : c[x] # {}} |-> c[t]] : c \in choices}

Engines ==
    {Engine("postgresql", "rows"), Engine("postgresql", "unknown"), Engine("sqlite", "unknown")}

\* a database of any of the schemas, without rows
InitMigrations ==
    /\ quiz_topics = {}
    /\ quiz_questions = {}
    /\ user_profiles = {}
    /\ user_quiz_results = {}
    /\ user_question_answers = {}
    /\ quiz_attempts = {}
    /\ topic_id_seq = 0
    /\ temp_files = {}
    /\ pc = [w \in Workers |-> "idle"]
    /\ quiz = [w \in Workers |-> NoQuiz]
    /\ quiz_topic = [w \in Workers |-> NoTopic]
    /\ temp_file_path = [w \in Workers |-> None]
    /\ now = StartTime
    /\ last = Response("", "", NoRequest, NoEnv, 0, "", NoQuiz)
    /\ engine \in Engines
    /\ tables \in Schemas

\* The migration scripts are run in any order, any number of times.
NextMigrations ==
    \/ HerokuDbUpdateMain
    \/ AlterTableMain
    \/ AlterUserQuizResultsMain

SpecMigrations == InitMigrations /\ [][NextMigrations]_vars

TimesTaken == {None, Some(0), Some(30), Some(-5)}
TotalQuestions == {-1, 0, 2}

\* One user submits the one quiz with any time taken and any number of
\* questions.
NextAverage ==
    \/ /\ topic_id_seq = 0
       /\ CreateQuizFlush("w1", UrlRequest("medium"), Generated(OneQuestionQuiz))
    \/ CreateQuizCommit("w1", NoEnv)
    \/ CreateOrUpdateUserProfile(ProfileRequest("u1"))
    \/ \E r \in SubmitRequests({"u1"}, {1}, {90}, {TRUE}, {<<>>}),
          time_taken \in TimesTaken, total_questions \in TotalQuestions :
           LET req == [r EXCEPT !.time_taken = time_taken,
                                !.total_questions = total_questions]
           IN  /\ WithinBounds(req)
               /\ SubmitQuizResult(req)

SpecAverage == Init /\ [][NextAverage]_vars

\* ---------------------------------------------------------------- claims
GenOps == {"create_quiz", "create_quiz_from_pdf"}

\* how often text x occurs in the sequence s
Count(s, x) == Cardinality({i \in DOMAIN s : s[i] = x})

QuestionsOf(questions, topic_id) == {q \in questions : q.topic_id = topic_id}

\* the step is the successful return of a generation handler: one topic row
\* with the generated topic, category and subcategory, and one question row
\* per generated question, all with that topic's id
GenerationCommits ==
    (last'.op \in GenOps /\ last'.status = 200) =>
        LET generated == last'.body
            t == quiz_topic[last'.worker]
            new == quiz_questions' \ quiz_questions
        IN  /\ t \notin quiz_topics
            /\ t.id \notin {x.id : x \in quiz_topics}
            /\ quiz_topics' = quiz_topics \cup {t}
            /\ t.topic = generated.topic
            /\ t.category = generated.category
            /\ t.subcategory = generated.subcategory
            /\ quiz_questions \subseteq quiz_questions'
            /\ Cardinality(new) = Len(generated.questions)
            /\ \A q \in new : q.topic_id = t.id
            /\ \A q \in new : q.id \notin {x.id : x \in quiz_questions}
            /\ \A x \in Range(generated.questions) \cup {q.question : q \in new} :
                   Cardinality({q \in new : q.question = x}) = Count(generated.questions, x)

\* every other step of a generation handler, a failure included, persists nothing
GenerationFailurePersistsNothing ==
    (last'.op \in GenOps /\ last'.status # 200) =>
        /\ quiz_topics' = quiz_topics
        /\ quiz_questions' = quiz_questions

\* a question belongs to a committed topic, the topic a handler has flushed
\* but not committed has no question, two handlers never hold the same topic
\* id, and a committed topic's questions never change
NoCrossAttachment ==
    /\ \A q \in quiz_questions' : \E t \in quiz_topics' : t.id = q.topic_id
    /\ \A w \in Workers : pc'[w] \in GenOps =>
           /\ QuestionsOf(quiz_questions', quiz_topic'[w].id) = {}
           /\ \A t \in quiz_topics' : t.id # quiz_topic'[w].id
           /\ \A v \in Workers \ {w} : pc'[v] \in GenOps => quiz_topic'[v].id # quiz_topic'[w].id
    /\ \A t \in quiz_topics :
           QuestionsOf(quiz_questions', t.id) = QuestionsOf(quiz_questions, t.id)

\* C1: a successful POST /generate-quiz or /generate-quiz-from-pdf persists
\* exactly one new topic row with the generated topic, category and
\* subcategory and one question row per generated question, each with the new
\* topic's id; a handler that fails before its commit persists neither; under
\* any interleaving of generation requests no question is attached to another
\* request's topic.
C1_GenerationPersistsQuiz ==
    [][GenerationCommits /\ GenerationFailurePersistsNothing /\ NoCrossAttachment]_vars

\* a PDF quiz of two questions has been committed while another worker still
\* holds a topic it flushed earlier
C1_Witness ==
    /\ last.op = "create_quiz_from_pdf"
    /\ last.status = 200
    /\ Len(last.body.questions) = 2
    /\ \E w \in Workers \ {last.worker}, t \in quiz_topics :
           /\ pc[w] = "create_quiz"
           /\ quiz_topic[w].id < t.id
           /\ Cardinality(QuestionsOf(quiz_questions, t.id)) = 2

\* the rows POST /quiz/submit has written
SubmittedRows == {r \in user_quiz_results : r.completed_at # None}

\* C2: the time_of_day POST /quiz/submit stores is a total function of the UTC
\* hour h of the submission: Morning for 5 <= h < 12, Afternoon for
\* 12 <= h < 17, Evening for 17 <= h < 21, Night for 21..23 and 0..4; it is
\* one of the four values and never null.
C2_TimeOfDayByHour ==
    \A r \in SubmittedRows :
        LET h == r.completed_at[1] % 24
        IN  /\ h \in 0..23
            /\ r.time_of_day # None
            /\ r.time_of_day[1] \in {"Morning", "Afternoon", "Evening", "Night"}
            /\ h \in 5..11 <=> r.time_of_day = Some("Morning")
            /\ h \in 12..16 <=> r.time_of_day = Some("Afternoon")
            /\ h \in 17..20 <=> r.time_of_day = Some("Evening")
            /\ h \in (21..23) \cup (0..4) <=> r.time_of_day = Some("Night")

\* a completed submission of the first hour of a Sunday afternoon
C2_Witness ==
    \E r \in SubmittedRows :
        /\ r.completed_at[1] % 24 = 12
        /\ r.time_of_day = Some("Afternoon")
        /\ r.day_of_week = Some("Sunday")
        /\ r.completed

Harder(level) == CASE level = "Easy" -> 0 [] level = "Medium" -> 1 [] level = "Hard" -> 2

\* C3: the difficulty_level POST /quiz/submit stores is decided by the score
\* alone: Easy from 0.8, Medium from 0.6 to below 0.8, Hard below 0.6; it is
\* never null, and a higher score never gets a harder level.
C3_DifficultyByScore ==
    /\ \A r \in SubmittedRows :
           /\ r.difficulty_level # None
           /\ r.score >= 80 => r.difficulty_level = Some("Easy")
           /\ (60 <= r.score /\ r.score < 80) => r.difficulty_level = Some("Medium")
           /\ r.score < 60 => r.difficulty_level = Some("Hard")
    /\ \A r1, r2 \in SubmittedRows :
           r1.score >= r2.score =>
               Harder(r1.difficulty_level[1]) <= Harder(r2.difficulty_level[1])

\* results at both thresholds
C3_Witness ==
    \E r1, r2 \in SubmittedRows :
        /\ r1.score = 80 /\ r1.difficulty_level = Some("Easy")
        /\ r2.score = 60 /\ r2.difficulty_level = Some("Medium")

\* the step was a successful POST /quiz/submit
Submits == last.op = "submit_quiz_result" /\ last.status = 200

\* the row the response of the submission names
SubmittedRow == CHOOSE r \in user_quiz_results : r.id = last.body.quiz_result_id

\* p lists the answers by ascending question_id, answers of one question in
\* the order they were submitted
AscendingOrder(answers, p) ==
    /\ \A i, j \in DOMAIN answers : i # j => p[i] # p[j]
    /\ \A i, j \in DOMAIN answers : i < j =>
           \/ answers[p[i]].question_id < answers[p[j]].question_id
           \/ answers[p[i]].question_id = answers[p[j]].question_id /\ p[i] < p[j]

\* k is the length of the longest all-correct suffix of s
LongestCorrectSuffix(s, k) ==
    /\ k \in 0..Len(s)
    /\ \A i \in DOMAIN s : i > Len(s) - k => s[i].is_correct
    /\ k < Len(s) => ~s[Len(s) - k].is_correct

\* C4: the streak POST /quiz/submit stores is the length of the longest
\* all-correct suffix of the submitted answers in ascending question_id order:
\* 0 for no answers and when the last answer of that order is wrong, the
\* number of answers exactly when all are correct, and between 0 and the number
\* of answers.
C4_StreakIsCorrectSuffix ==
    Submits =>
        LET answers == last.req.answers
            n == Len(answers)
            streak == SubmittedRow.streak
        IN  /\ \A p \in [1..n -> 1..n] : AscendingOrder(answers, p) =>
                   LET s == [i \in 1..n |-> answers[p[i]]]
                   IN  /\ LongestCorrectSuffix(s, streak)
                       /\ (n > 0 /\ ~s[n].is_correct) => streak = 0
            /\ \E p \in [1..n -> 1..n] : AscendingOrder(answers, p)
            /\ n = 0 => streak = 0
            /\ streak = n <=> \A i \in 1..n : answers[i].is_correct
            /\ 0 <= streak /\ streak <= n

\* the wrong answer was submitted last but belongs to the first question
C4_Witness ==
    /\ Submits
    /\ last.req.answers = <<Answer(2, TRUE), Answer(2, TRUE), Answer(1, FALSE)>>
    /\ SubmittedRow.streak = 2

\* the row holds what the request submitted and what the handler derived
HoldsSubmission(row, req, t) ==
    /\ row.topic_id = req.topic_id
    /\ row.score = req.score
    /\ row.total_questions = req.total_questions
    /\ row.correct_answers = req.correct_answers
    /\ row.time_taken = req.time_taken
    /\ row.completed = req.completed
    /\ row.quiz_context = req.quiz_context
    /\ row.completed_at = Some(t)
    /\ row.day_of_week = Some(DayOfWeek(t))
    /\ row.time_of_day = Some(TimeOfDay(Hour(t)))
    /\ row.average_time_per_question =
           AverageTimePerQuestion(req.time_taken, req.total_questions)
    /\ row.difficulty_level = Some(DifficultyLevel(req.score))
    /\ row.streak = Streak(req.answers)

OpenResults(results, user_id, topic_id) ==
    {r \in results : r.user_id = user_id /\ r.topic_id = topic_id /\ r.completed = FALSE}

\* C5: a POST /quiz/submit for an existing user and topic updates one of the
\* pair's results with completed = false when there is one, adding no row (and
\* with completed = true in the request the pair has one in-progress result
\* fewer), and adds exactly one row otherwise; the row then holds the request's
\* fields and the derived ones, and the response's quiz_result_id names it.
C5_SubmitCreatesOrUpdates ==
    [][(last'.op = "submit_quiz_result" /\ last'.status = 200) =>
          LET req == last'.req
          IN  \E user \in {u \in user_profiles : u.firebase_uid = req.firebase_uid} :
              \E row \in user_quiz_results' :
                  LET open == OpenResults(user_quiz_results, user.id, req.topic_id)
                      after == OpenResults(user_quiz_results', user.id, req.topic_id)
                  IN  /\ row.id = last'.body.quiz_result_id
                      /\ row.user_id = user.id
                      /\ HoldsSubmission(row, req, now)
                      /\ \E t \in quiz_topics : t.id = req.topic_id
                      /\ IF open # {}
                         THEN /\ \E old \in open :
                                     /\ old.id = row.id
                                     /\ user_quiz_results' = (user_quiz_results \ {old}) \cup {row}
                              /\ Cardinality(user_quiz_results') = Cardinality(user_quiz_results)
                              /\ req.completed => Cardinality(after) = Cardinality(open) - 1
                         ELSE /\ row.id \notin {r.id : r \in user_quiz_results}
                              /\ user_quiz_results' = user_quiz_results \cup {row}
                              /\ Cardinality(user_quiz_results') = Cardinality(user_quiz_results) + 1
      ]_vars

\* the first result was completed by a submission while the same user has a
\* later result in progress for the other topic
C5_Witness ==
    /\ Submits
    /\ last.req.completed
    /\ last.body.quiz_result_id = 1
    /\ \E r1, r2 \in user_quiz_results :
           /\ r1.id = 1 /\ r1.completed /\ r1.score = 90
           /\ r2.id = 2 /\ ~r2.completed /\ r2.user_id = r1.user_id
           /\ r2.topic_id # r1.topic_id

\* the step was a successful GET /user/{firebase_uid}/quiz-history
ReadsHistory == last.op = "get_user_quiz_history" /\ last.status = 200

RECURSIVE SumOf(_, _)
SumOf(f, keys) ==
    IF keys = {} THEN 0
    ELSE LET k == CHOOSE x \in keys : TRUE IN f[k] + SumOf(f, keys \ {k})

\* counts maps every value the entries carry in the column to the number of
\* entries carrying it, and the counts add up to the number of entries
CountsColumn(counts, column) ==
    /\ DOMAIN counts = {column[i][1] : i \in {j \in DOMAIN column : column[j] # None}}
    /\ \A v \in DOMAIN counts :
           counts[v] = Cardinality({i \in DOMAIN column : column[i] = Some(v)})
    /\ SumOf(counts, DOMAIN counts) = Len(column)

\* C7: in the statistics of the history, total_quizzes is the number of
\* entries, average_score their mean score (0 for an empty history), and
\* quizzes_by_day, quizzes_by_time and quizzes_by_difficulty map every
\* occurring value to the number of entries carrying it, each adding up to
\* total_quizzes.
C7_HistoryStatistics ==
    ReadsHistory =>
        LET history == last.body.quiz_history
            stats == last.body.statistics
            scores == [i \in DOMAIN history |-> history[i].score]
        IN  /\ stats.total_quizzes = Len(history)
            /\ stats.average_score.den # 0
            /\ IF Len(history) = 0
               THEN stats.average_score.num = 0
               ELSE stats.average_score.num * Len(history)
                        = SumOf(scores, DOMAIN scores) * stats.average_score.den
            /\ CountsColumn(stats.quizzes_by_day,
                            [i \in DOMAIN history |-> history[i].day_of_week])
            /\ CountsColumn(stats.quizzes_by_time,
                            [i \in DOMAIN history |-> history[i].time_of_day])
            /\ CountsColumn(stats.quizzes_by_difficulty,
                            [i \in DOMAIN history |-> history[i].difficulty_level])

\* a history of an easy and a hard result of different hours
C7_Witness ==
    /\ ReadsHistory
    /\ last.body.statistics.total_quizzes = 2
    /\ last.body.statistics.average_score = Fraction(140, 2)
    /\ DOMAIN last.body.statistics.quizzes_by_difficulty = {"Easy", "Hard"}
    /\ DOMAIN last.body.statistics.quizzes_by_time = {"Night", "Morning"}

\* the step is the first of a generation handler, whose request fails validation
FailsValidation ==
    /\ last.op \in GenOps
    /\ last.req # NoRequest
    /\ \/ last.req.difficulty \notin {"easy", "medium", "hard"}
       \/ /\ last.op = "create_quiz_from_pdf"
          /\ ~IsPdfFilename(last.req.filename)

\* C8: the generation endpoints answer a difficulty outside easy, medium,
\* hard, and a PDF upload whose name does not end in .pdf, with status 400 and
\* the validation message; the generator is not called and nothing is
\* persisted.
C8_ValidationAnswers400 ==
    FailsValidation =>
        /\ last.status = 400
        /\ last.detail \in {"Invalid difficulty level. Choose from: easy, medium, hard",
                            "Only PDF files are accepted"}
        /\ last.raised.generate = NoException
        /\ \A w \in Workers : pc[w] = "idle" => quiz_topic[w] = NoTopic

IsHTTPError404(e) == e.type = "HTTPError" /\ e.status_code = 404

\* C9: when generate_quiz raises an HTTP error with response status 404,
\* POST /generate-quiz answers 404 'Content not found at URL'; every other
\* HTTP error and every other exception is answered with 500; in all these
\* cases no topic and no question is persisted.
C9_CreateQuizErrorStatus ==
    [][(last'.op = "create_quiz" /\ last'.status \notin {0, 200}) =>
          /\ IF IsHTTPError404(last'.raised.generate)
             THEN last'.status = 404 /\ last'.detail = "Content not found at URL"
             ELSE last'.status = 500
          /\ quiz_topics' = quiz_topics
          /\ quiz_questions' = quiz_questions
          /\ pc'[last'.worker] = "idle"
          /\ quiz_topic'[last'.worker] = NoTopic]_vars

\* generate_quiz raised a 404 HTTP error in a request that passed validation
C9_Witness ==
    /\ last.op = "create_quiz"
    /\ last.req.difficulty = "hard"
    /\ IsHTTPError404(last.raised.generate)
    /\ last.status = 404

\* C10: every temporary file POST /generate-quiz-from-pdf created is deleted
\* by the time the handler returns, on every path: a file that exists belongs
\* to a handler that has not returned yet.
C10_TempFilesDeleted ==
    \A f \in temp_files :
        \E w \in Workers :
            /\ pc[w] \in {"pdf_uploaded", "create_quiz_from_pdf"}
            /\ temp_file_path[w] = Some(f)

\* C11: a firebase_uid identifies at most one user profile: with POST
\* /user/profile and POST /quiz/start served in any order, there is at most
\* one user_profiles row per firebase_uid, a row is added only for a uid that
\* has none, and two successful POST /user/profile calls of one firebase_uid
\* in a row return the same user_id.
C11_OneProfilePerUid ==
    [][/\ \A u1, u2 \in user_profiles' : u1.firebase_uid = u2.firebase_uid => u1 = u2
       /\ \A u1, u2 \in user_profiles' : u1.id = u2.id => u1 = u2
       /\ \A u \in user_profiles' :
              u.id \notin {x.id : x \in user_profiles} =>
                  /\ UsersWithUid(u.firebase_uid) = {}
                  /\ Cardinality(user_profiles') = Cardinality(user_profiles) + 1
       /\ \A u \in user_profiles :
              \E x \in user_profiles' : x.id = u.id /\ x.firebase_uid = u.firebase_uid
       /\ (/\ last.op = "create_or_update_user_profile" /\ last.status = 200
           /\ last'.op = "create_or_update_user_profile" /\ last'.status = 200
           /\ last.req.firebase_uid = last'.req.firebase_uid)
              => last'.body.user_id = last.body.user_id
       /\ (last'.op = "create_or_update_user_profile" /\ last'.status = 200) =>
              \E u \in user_profiles' :
                  u.id = last'.body.user_id /\ u.firebase_uid = last'.req.firebase_uid
      ]_vars

\* a POST /user/profile that found no profile is refused by the database
\* because POST /quiz/start has created the profile of the uid meanwhile, and
\* the other user has a profile too
C11_Witness ==
    /\ last.op = "create_or_update_user_profile"
    /\ last.status = 500
    /\ last.req.firebase_uid = "u2"
    /\ Cardinality(user_profiles) = 2
    /\ \E u \in user_profiles : u.firebase_uid = "u2" /\ u.username = None
    /\ user_quiz_results # {}

\* the value a request field carries counts when it is neither null nor empty
Carries(field) == field # None /\ field # Some("")

\* C12: POST /user/profile for an existing user overwrites username only when
\* the request carries a non-empty username and email only when it carries a
\* non-empty email; a null or empty field leaves the stored value unchanged;
\* the profile's id, firebase_uid and created_at are never changed, and no
\* other profile is touched.
C12_ProfileUpdateFrame ==
    [][(/\ last'.op = "create_or_update_user_profile"
        /\ last'.status = 200
        /\ UsersWithUid(last'.req.firebase_uid) # {}) =>
          LET req == last'.req
          IN  \E old \in UsersWithUid(req.firebase_uid) :
              \E new \in user_profiles' :
                  /\ new.id = old.id
                  /\ new.firebase_uid = old.firebase_uid
                  /\ new.created_at = old.created_at
                  /\ new.username = IF Carries(req.username) THEN req.username ELSE old.username
                  /\ new.email = IF Carries(req.email) THEN req.email ELSE old.email
                  /\ user_profiles' = (user_profiles \ {old}) \cup {new}
                  /\ last'.body.user_id = old.id
      ]_vars

\* a request with an empty username and a new email has left the name of a
\* profile created an hour earlier alone
C12_Witness ==
    /\ last.op = "create_or_update_user_profile"
    /\ last.status = 200
    /\ last.req.username = Some("")
    /\ last.req.email = Some("a@x")
    /\ \E u \in user_profiles :
           /\ u.firebase_uid = last.req.firebase_uid
           /\ u.username = Some("bob")
           /\ u.email = Some("a@x")
           /\ u.created_at < now

\* C13: a successful POST /quiz/start creates a profile for the firebase_uid
\* if none exists (and none otherwise) and adds exactly one user_quiz_results
\* row, for that user and topic, with completed = false, score = 0,
\* correct_answers = 0, completed_at unset and total_questions the number of
\* questions stored for the topic; the returned quiz_result_id is that row's
\* and the returned total_questions the stored value.
C13_StartAddsInProgressRow ==
    [][(last'.op = "start_quiz" /\ last'.status = 200) =>
          LET req == last'.req
          IN  \E user \in {u \in user_profiles' : u.firebase_uid = req.firebase_uid} :
              \E row \in user_quiz_results' :
                  /\ IF UsersWithUid(req.firebase_uid) = {}
                     THEN /\ user_profiles' = user_profiles \cup {user}
                          /\ user.id \notin {u.id : u \in user_profiles}
                     ELSE user_profiles' = user_profiles
                  /\ \E t \in quiz_topics : t.id = req.topic_id
                  /\ row.id \notin {r.id : r \in user_quiz_results}
                  /\ user_quiz_results' = user_quiz_results \cup {row}
                  /\ Cardinality(user_quiz_results') = Cardinality(user_quiz_results) + 1
                  /\ row.user_id = user.id
                  /\ row.topic_id = req.topic_id
                  /\ row.completed = FALSE
                  /\ row.score = 0
                  /\ row.correct_answers = 0
                  /\ row.completed_at = None
                  /\ row.total_questions = Cardinality(QuestionsOf(quiz_questions, req.topic_id))
                  /\ row.total_questions = Cardinality(QuestionsOf(quiz_questions', req.topic_id))
                  /\ last'.body.quiz_result_id = row.id
                  /\ last'.body.total_questions = row.total_questions
      ]_vars

\* a user without a profile has started the quiz of two questions, which
\* created the profile, while the other topic has fewer questions
C13_Witness ==
    /\ last.op = "start_quiz"
    /\ last.status = 200
    /\ last.body.total_questions = 2
    /\ user_profiles = {u \in user_profiles : u.username = None}
    /\ Cardinality(user_profiles) = 1
    /\ Cardinality(user_quiz_results) = 1
    /\ \E t \in quiz_topics :
           /\ t.id # last.req.topic_id
           /\ Cardinality(QuestionsOf(quiz_questions, t.id)) = 1

\* how many entries of the sequence s equal x
Occurrences(s, x) == Cardinality({i \in DOMAIN s : s[i] = x})

\* C14: POST /record-quiz-attempt for an existing topic adds exactly one
\* quiz_attempts row of that topic and answers 201, and no other step changes
\* the table; GET /quiz-attempts/{topic_id} for an existing topic returns one
\* timestamp per row of that topic, none of another topic; both endpoints
\* answer 404 'Quiz topic not found' for a topic that does not exist,
\* recording nothing.
C14_AttemptsRecordedAndListed ==
    [][/\ (last'.op = "record_quiz_attempt" /\ last'.status = 201) =>
              \E row \in quiz_attempts' :
                  /\ \E t \in quiz_topics : t.id = last'.req.topic_id
                  /\ row.id \notin {a.id : a \in quiz_attempts}
                  /\ quiz_attempts' = quiz_attempts \cup {row}
                  /\ Cardinality(quiz_attempts') = Cardinality(quiz_attempts) + 1
                  /\ row.topic_id = last'.req.topic_id
                  /\ row.timestamp = last'.body.timestamp
       /\ (last'.op = "record_quiz_attempt" /\ last'.status # 201) =>
              /\ last'.status = 404
              /\ last'.detail = "Quiz topic not found"
              /\ ~\E t \in quiz_topics : t.id = last'.req.topic_id
       /\ ~(last'.op = "record_quiz_attempt" /\ last'.status = 201) =>
              quiz_attempts' = quiz_attempts
       /\ (last'.op = "get_quiz_attempts" /\ last'.status = 200) =>
              LET listed == last'.body.attempts
                  rows == {a \in quiz_attempts : a.topic_id = last'.req}
              IN  /\ \E t \in quiz_topics : t.id = last'.req
                  /\ Len(listed) = Cardinality(rows)
                  /\ \A x \in Range(listed) \cup {a.timestamp : a \in rows} :
                         Occurrences(listed, x) = Cardinality({a \in rows : a.timestamp = x})
       /\ (last'.op = "get_quiz_attempts" /\ last'.status # 200) =>
              /\ last'.status = 404
              /\ last'.detail = "Quiz topic not found"
              /\ ~\E t \in quiz_topics : t.id = last'.req
      ]_vars

\* the two attempts of one topic, of different hours, are listed while the
\* other topic has an attempt too
C14_Witness ==
    /\ last.op = "get_quiz_attempts"
    /\ last.status = 200
    /\ Len(last.body.attempts) = 2
    /\ last.body.attempts[1] > last.body.attempts[2]
    /\ \E a \in quiz_attempts : a.topic_id # last.req

\* the step was a GET /categories
ReadsCategories == last.op = "get_categories" /\ last.status = 200

\* C15: the keys GET /categories returns are exactly the categories of the
\* stored topics (a key occurs once, being a key), the list under a category
\* holds exactly the subcategories of that category's topics, each once, and
\* so every stored (category, subcategory) pair is represented and no
\* subcategory is listed under a category it does not occur in.
C15_CategoriesListed ==
    ReadsCategories =>
        LET categories == last.body
        IN  /\ DOMAIN categories = {t.category : t \in quiz_topics}
            /\ \A c \in DOMAIN categories :
                   /\ Range(categories[c]) =
                          {t.subcategory : t \in {x \in quiz_topics : x.category = c}}
                   /\ \A i, j \in DOMAIN categories[c] :
                          categories[c][i] = categories[c][j] => i = j
            /\ \A t \in quiz_topics :
                   /\ t.category \in DOMAIN categories
                   /\ t.subcategory \in Range(categories[t.category])

\* two topics share their category and subcategory, which is listed once
C15_Witness ==
    /\ ReadsCategories
    /\ Cardinality(quiz_topics) = 2
    /\ DOMAIN last.body = {"c1"}
    /\ last.body["c1"] = <<"s2">>

\* the topics have different categories, each with its own subcategory
C15_WitnessTwoCategories ==
    /\ ReadsCategories
    /\ DOMAIN last.body = {"c1", "c2"}
    /\ last.body["c1"] = <<"s1">>
    /\ last.body["c2"] = <<"s2">>

\* C16: after heroku_db_update.main() every table the models declare exists
\* with every column they declare, whether the table was absent or existed
\* with an older column set.
C16_TablesCreatedOrUpdated ==
    (last.op = "heroku_db_update" /\ last.status = 0) =>
        \A t \in DOMAIN Metadata :
            /\ t \in DOMAIN tables
            /\ Metadata[t] \subseteq tables[t]

\* what does hold: after heroku_db_update.main() every declared table exists,
\* and a table that was absent has every declared column
C16_TablesCreated ==
    [][last'.op = "heroku_db_update" =>
          /\ DOMAIN Metadata \subseteq DOMAIN tables'
          /\ \A t \in DOMAIN Metadata \ DOMAIN tables : tables'[t] = Metadata[t]
          /\ \A t \in DOMAIN tables : tables'[t] = tables[t]]_vars

AlterOps == {"alter_table", "alter_user_quiz_results"}

\* the table the script alters
AlteredTable(op) == IF op = "alter_table" THEN "quiz_topics" ELSE "user_quiz_results"

\* the column exists in the schema
Present(schema, table, column) == table \in DOMAIN schema /\ column \in schema[table]

\* C18: alter_table.main() and the column loop of
\* alter_user_quiz_results.main() never issue ALTER TABLE ... ADD COLUMN for
\* a column that is present and add nothing but the columns they issue it
\* for, and a run that follows a run of the same script changes nothing and
\* raises no error.
C18_ColumnScriptsIdempotent ==
    [][last'.op \in AlterOps =>
          LET table == AlteredTable(last'.op)
              added == last'.body
          IN  /\ \A i \in DOMAIN added : ~Present(tables, table, added[i])
              /\ \A t \in DOMAIN tables' :
                     /\ t \in DOMAIN tables
                     /\ tables[t] \subseteq tables'[t]
                     /\ tables'[t] \ tables[t] \subseteq (IF t = table THEN Range(added) ELSE {})
              /\ last'.req = 2 =>
                     /\ tables' = tables
                     /\ added = <<>>
                     /\ last'.status = 0
      ]_vars

\* what does hold: a run that follows a run of the same script which
\* returned changes nothing, issues no ALTER TABLE and returns
C18_IdempotentAfterSuccess ==
    [][last'.op \in AlterOps =>
          LET table == AlteredTable(last'.op)
              added == last'.body
          IN  /\ \A i \in DOMAIN added : ~Present(tables, table, added[i])
              /\ (last'.req = 2 /\ last.status = 0) =>
                     /\ tables' = tables
                     /\ added = <<>>
                     /\ last'.status = 0
      ]_vars

\* the column loop has added all six columns and its second run has returned
C18_WitnessSecondRun ==
    /\ last.op = "alter_user_quiz_results"
    /\ last.req = 2
    /\ last.status = 0
    /\ engine = Engine("postgresql", "rows")
    /\ Present(tables, "user_quiz_results", "quiz_context")
    /\ UserQuizResultColumns \subseteq tables["user_quiz_results"]
    /\ ~Present(tables, "quiz_topics", "last_attempt_date")

\* C17: the average_time_per_question POST /quiz/submit stores is
\* time_taken / total_questions when time_taken is a non-zero number and
\* total_questions > 0, and null otherwise; no stored quotient has the
\* divisor 0.
C17_AverageTimePerQuestion ==
    /\ Submits =>
           LET time_taken == last.req.time_taken
               total_questions == last.req.total_questions
               average == SubmittedRow.average_time_per_question
           IN  IF time_taken # None /\ time_taken # Some(0) /\ total_questions > 0
               THEN /\ average # None
                    /\ average[1].num = time_taken[1]
                    /\ average[1].den = total_questions
               ELSE average = None
    /\ \A r \in user_quiz_results :
           r.average_time_per_question # None => r.average_time_per_question[1].den > 0

\* a submission with a time taken and no questions has stored no average,
\* next to a result that has one
C17_Witness ==
    /\ Submits
    /\ last.req.time_taken = Some(30)
    /\ last.req.total_questions = 0
    /\ SubmittedRow.average_time_per_question = None
    /\ \E r \in user_quiz_results : r.average_time_per_question = Some(Fraction(-5, 2))

====
